---- MODULE Spec2Model ----
(***************************************************************************)
(* The "fields" slice of the farm dashboard's redux store, the fetchFields *)
(* thunk that feeds it, the selectors over it (getAllFields, getFieldById, *)
(* getFieldCenterById) and the selector of SelectedFieldCard in App.tsx.   *)
(***************************************************************************)
EXTENDS Integers, Sequences, FiniteSets, TLC

\* ------------------------------------------------------------------ bounds
\* clickField payloads range over 1..MaxId
MaxId == 4
\* a fetch payload holds at most MaxFields fields
MaxFields == 2
\* at most MaxInFlight fetchFields thunks are pending at once
MaxInFlight == 2

\* ------------------------------------------------------- JavaScript values
\* An optional value (T | undefined) is the empty sequence or <<value>>.
None == <<>>
Some(x) == <<x>>

\* A coordinate component as it arrives at run time: a finite number, NaN,
\* Infinity, a string, or undefined.
Num(n) == [kind |-> "number", val |-> n]
NaN == [kind |-> "NaN", val |-> 0]
Infinity == [kind |-> "Infinity", val |-> 0]
Str == [kind |-> "string", val |-> 0]
Undefined == [kind |-> "undefined", val |-> 0]

\* lodash isNumber: typeof value == "number"; NaN and Infinity are numbers.
isNumber(v) == v.kind \in {"number", "NaN", "Infinity"}

\* Number.isFinite: a number that is neither NaN nor infinite.
IsFinite(v) == v.kind = "number"

\* a coordinate pair [lng, lat]; P1 is a pair with one element only
P(a, b) == <<a, b>>
P1(a) == <<a>>

\* array destructuring  [lng, lat] = pair : a missing element is undefined
Elem(pair, i) == IF i <= Len(pair) THEN pair[i] ELSE Undefined

\* ------------------------------------------------------------- field data
\* The fields the mocked api can return.  Ids 1..3 occur, MaxId never does.
North ==
  [id |-> 1, field_name |-> "North",
   polygon |-> [coordinates |->
     << << P(Num(0), Num(0)), P(Num(0), Num(2)), P(Num(2), Num(2)),
           P(Num(2), Num(0)), P(Num(0), Num(0)) >> >>]]

South ==
  [id |-> 2, field_name |-> "South",
   polygon |-> [coordinates |->
     << << P(Num(4), Num(0)), P(NaN, Num(0)), P(Num(4), Num(2)),
           P(Str, Num(2)), P(Num(6), Infinity), P1(Num(6)),
           P(Num(6), Num(0)) >> >>]]

NorthAgain ==
  [id |-> 1, field_name |-> "North (resurveyed)",
   polygon |-> [coordinates |->
     << << P(Num(0), Num(0)), P(Num(0), Num(4)), P(Num(4), Num(0)),
           P(Num(0), Num(0)) >> >>]]

Bare ==
  [id |-> 3, field_name |-> "Bare", polygon |-> [coordinates |-> << >>]]

FieldPool == {North, South, NorthAgain, Bare}

RECURSIVE SeqsUpTo(_, _)
SeqsUpTo(S, n) ==
  IF n = 0 THEN {<< >>}
  ELSE LET shorter == SeqsUpTo(S, n - 1)
       IN  shorter \cup {Append(s, x) : s \in {t \in shorter : Len(t) = n - 1}, x \in S}

\* what getFieldDataFromMockedApi can resolve to
Payloads == SeqsUpTo(FieldPool, MaxFields)

PayloadIds(payload) == {payload[i].id : i \in 1..Len(payload)}

DistinctIds(payload) ==
  \A i, j \in 1..Len(payload) : i # j => payload[i].id # payload[j].id

\* ------------------------------------------------------------------ state
VARIABLES
  ids,            \* FieldsState.ids
  entities,       \* FieldsState.entities
  selectedId,     \* FieldsState.selectedId
  fetchStatus,    \* FieldsState.fetchStatus ("undefined" while unset)
  inFlight,       \* fetchFields thunks dispatched and not yet settled
  lastAction,     \* the action the reducer handled last
  fulfilledPayload, \* payload of the last fetchFields.fulfilled
  seenIds         \* ids of every field a fulfilled fetch has delivered

vars == <<ids, entities, selectedId, fetchStatus, inFlight, lastAction,
          fulfilledPayload, seenIds>>

Unstarted == "undefined"

Action(type, id, payload) == [type |-> type, id |-> id, payload |-> payload]

\* initialState plus the store before any dispatch
Init ==
  /\ ids = << >>
  /\ entities = << >>
  /\ selectedId = None
  /\ fetchStatus = Unstarted
  /\ inFlight = 0
  /\ lastAction = Action("@@INIT", 0, << >>)
  /\ fulfilledPayload = << >>
  /\ seenIds = {}

\* ---------------------------------------------------------------- reducers
\* payload.map((field) => field.id)
MapIds(payload) == [i \in 1..Len(payload) |-> payload[i].id]

\* payload.reduce((acc, field) => ({...acc, [field.id]: {...field}}), {})
RECURSIVE ReduceEntities(_, _)
ReduceEntities(acc, payload) ==
  IF payload = << >> THEN acc
  ELSE LET field == Head(payload)
           next == [k \in (DOMAIN acc) \cup {field.id} |->
                      IF k = field.id THEN field ELSE acc[k]]
       IN  ReduceEntities(next, Tail(payload))

\* clickField that validates its payload against the store
clickFieldValidated(id) ==
  /\ selectedId' = IF id \in DOMAIN entities THEN Some(id) ELSE selectedId
  /\ lastAction' = Action("fields/clickField", id, << >>)
  /\ UNCHANGED <<ids, entities, fetchStatus, inFlight, fulfilledPayload, seenIds>>

clickField(id) ==
  /\ selectedId' = Some(id)
  /\ lastAction' = Action("fields/clickField", id, << >>)
  /\ UNCHANGED <<ids, entities, fetchStatus, inFlight, fulfilledPayload, seenIds>>

\* closeFieldInfoWindow that returns initialState
closeFieldInfoWindowReset ==
  /\ selectedId' = None
  /\ ids' = << >>
  /\ entities' = << >>
  /\ fetchStatus' = Unstarted
  /\ lastAction' = Action("fields/closeFieldInfoWindow", 0, << >>)
  /\ UNCHANGED <<inFlight, fulfilledPayload, seenIds>>

closeFieldInfoWindow ==
  /\ selectedId' = None
  /\ lastAction' = Action("fields/closeFieldInfoWindow", 0, << >>)
  /\ UNCHANGED <<ids, entities, fetchStatus, inFlight, fulfilledPayload, seenIds>>

\* a pending handler that forgets to record the status
fetchFieldsPendingSilent ==
  /\ inFlight < MaxInFlight
  /\ inFlight' = inFlight + 1
  /\ lastAction' = Action("fetchFields/pending", 0, << >>)
  /\ UNCHANGED <<ids, entities, selectedId, fetchStatus, fulfilledPayload, seenIds>>

\* dispatch(fetchFields()): the thunk dispatches pending at once
fetchFieldsPending ==
  /\ inFlight < MaxInFlight
  /\ inFlight' = inFlight + 1
  /\ fetchStatus' = "pending"
  /\ lastAction' = Action("fetchFields/pending", 0, << >>)
  /\ UNCHANGED <<ids, entities, selectedId, fulfilledPayload, seenIds>>

\* a fulfilled handler that merges the payload into the entities it has
fetchFieldsFulfilledMerge(payload) ==
  /\ inFlight > 0
  /\ inFlight' = inFlight - 1
  /\ fetchStatus' = "fulfilled"
  /\ ids' = MapIds(payload)
  /\ entities' = ReduceEntities(entities, payload)
  /\ lastAction' = Action("fetchFields/fulfilled", 0, payload)
  /\ fulfilledPayload' = payload
  /\ seenIds' = seenIds \cup PayloadIds(payload)
  /\ UNCHANGED selectedId

\* the payload creator returned: fetchFields.fulfilled
fetchFieldsFulfilled(payload) ==
  /\ inFlight > 0
  /\ inFlight' = inFlight - 1
  /\ fetchStatus' = "fulfilled"
  /\ ids' = MapIds(payload)
  /\ entities' = ReduceEntities(<< >>, payload)
  /\ lastAction' = Action("fetchFields/fulfilled", 0, payload)
  /\ fulfilledPayload' = payload
  /\ seenIds' = seenIds \cup PayloadIds(payload)
  /\ UNCHANGED selectedId

\* a rejected handler that drops the fields it has
fetchFieldsRejectedClears ==
  /\ inFlight > 0
  /\ inFlight' = inFlight - 1
  /\ fetchStatus' = "rejected"
  /\ ids' = << >>
  /\ entities' = << >>
  /\ lastAction' = Action("fetchFields/rejected", 0, << >>)
  /\ UNCHANGED <<selectedId, fulfilledPayload, seenIds>>

\* the payload creator threw: fetchFields.rejected
fetchFieldsRejected ==
  /\ inFlight > 0
  /\ inFlight' = inFlight - 1
  /\ fetchStatus' = "rejected"
  /\ lastAction' = Action("fetchFields/rejected", 0, << >>)
  /\ UNCHANGED <<ids, entities, selectedId, fulfilledPayload, seenIds>>

\* --------------------------------------------------------------- selectors
Returned(v) == [threw |-> FALSE, value |-> v]
Threw == [threw |-> TRUE, value |-> None]

\* state.fields.entities[id]
EntityAt(id) == IF id \in DOMAIN entities THEN Some(entities[id]) ELSE None

\* the keys of an object with integer keys, in the order Object.values visits them
RECURSIVE KeysAscending(_)
KeysAscending(S) ==
  IF S = {} THEN << >>
  ELSE LET least == CHOOSE x \in S : \A y \in S : x <= y
       IN  <<least>> \o KeysAscending(S \ {least})

\* getAllFields written as Object.values(entities)
getAllFieldsByKey ==
  LET keys == KeysAscending(DOMAIN entities)
  IN  [threw |-> FALSE, value |-> [i \in 1..Len(keys) |-> entities[keys[i]]]]

\* getAllFields: ids.map(id => entities[id]), throwing on a missing entity
getAllFields ==
  IF \E i \in 1..Len(ids) : EntityAt(ids[i]) = None
  THEN Threw
  ELSE Returned([i \in 1..Len(ids) |-> entities[ids[i]]])

\* getClickedFieldId
getClickedFieldId == selectedId

\* outerRing.reduce((acc, [lng, lat]) =>
\*   isNumber(lng) && isNumber(lat) ? [...acc, {lng, lat}] : acc, [])
RECURSIVE ReduceRing(_, _)
ReduceRing(acc, ring) ==
  IF ring = << >> THEN acc
  ELSE LET lng == Elem(Head(ring), 1)
           lat == Elem(Head(ring), 2)
       IN  ReduceRing(IF isNumber(lng) /\ isNumber(lat)
                      THEN Append(acc, [lng |-> lng, lat |-> lat])
                      ELSE acc,
                      Tail(ring))

\* getFieldById that answers a missing id with an empty placeholder field
getFieldByIdPlaceholder(fieldId) ==
  LET field == EntityAt(fieldId)
  IN  IF field # None
      THEN Some([id |-> field[1].id,
                 field_name |-> field[1].field_name,
                 polygon |-> field[1].polygon,
                 outerRing |-> IF Len(field[1].polygon.coordinates) >= 1
                               THEN Some(ReduceRing(<< >>, field[1].polygon.coordinates[1]))
                               ELSE None])
      ELSE Some([id |-> fieldId, field_name |-> "",
                 polygon |-> [coordinates |-> << >>], outerRing |-> None])

\* getFieldById: the field plus its outerRing, or undefined
getFieldById(fieldId) ==
  LET field == EntityAt(fieldId)
  IN  IF field # None
      THEN LET coordinates == field[1].polygon.coordinates
               outerRing == IF Len(coordinates) >= 1 THEN Some(coordinates[1]) ELSE None
           IN  Some([id |-> field[1].id,
                     field_name |-> field[1].field_name,
                     polygon |-> field[1].polygon,
                     outerRing |-> IF outerRing = None
                                   THEN None
                                   ELSE Some(ReduceRing(<< >>, outerRing[1]))])
      ELSE None

\* every coordinate pair of every ring of a polygon
RECURSIVE Flatten(_)
Flatten(rings) == IF rings = << >> THEN << >> ELSE Head(rings) \o Flatten(Tail(rings))

Min(S) == CHOOSE x \in S : \A y \in S : x <= y
Max(S) == CHOOSE x \in S : \A y \in S : x >= y

\* turf.center(polygon).geometry.coordinates: the middle of the bounding box.
\* It is always a pair of numbers; it is NaN when the polygon has no
\* coordinate or one that is not a finite number.  The finite coordinates
\* of FieldPool are even, so the halving is exact.
turfCenter(polygon) ==
  LET pairs == Flatten(polygon.coordinates)
      comps(k) == {Elem(pairs[i], k) : i \in 1..Len(pairs)}
      mid(k) == IF pairs = << >> \/ \E v \in comps(k) : ~IsFinite(v)
                THEN NaN
                ELSE LET vals == {v.val : v \in comps(k)}
                     IN  Num((Min(vals) + Max(vals)) \div 2)
  IN  <<mid(1), mid(2)>>

\* getFieldCenterById
getFieldCenterById(id) ==
  LET fieldData == getFieldById(id)
  IN  IF fieldData # None
      THEN LET c == turfCenter(fieldData[1].polygon)
           IN  IF isNumber(c[1]) /\ isNumber(c[2])
               THEN Some([lng |-> c[1], lat |-> c[2]])
               ELSE None
      ELSE None

\* getMostRecentEventsPerField(state, fieldName): the events mapping looked
\* up under the given field name
getMostRecentEventsPerField(fieldName) == [lookup |-> fieldName]

\* the selector with "return undefined" where the code throws
SelectedFieldCardLenient ==
  IF selectedId = None
  THEN [threw |-> FALSE, value |-> None]
  ELSE LET fieldData == getFieldById(selectedId[1])
           center == getFieldCenterById(selectedId[1])
       IN  IF fieldData = None \/ center = None
           THEN [threw |-> FALSE, value |-> None]
           ELSE [threw |-> FALSE,
                 value |-> Some([fieldName |-> fieldData[1].field_name,
                                 center |-> center[1],
                                 mostRecentEvents |-> getMostRecentEventsPerField("Perez-Brown")])]

\* the selector SelectedFieldCard passes to useSelector
SelectedFieldCard ==
  IF selectedId = None
  THEN Returned(None)
  ELSE LET fieldData == getFieldById(selectedId[1])
           fieldName == IF fieldData = None THEN None ELSE Some(fieldData[1].field_name)
           center == getFieldCenterById(selectedId[1])
           mostRecentEvents == getMostRecentEventsPerField("Perez-Brown")
       IN  IF fieldName = None \/ center = None
           THEN Threw
           ELSE Returned(Some([fieldName |-> fieldName[1],
                               center |-> center[1],
                               mostRecentEvents |-> mostRecentEvents]))

\* ------------------------------------------------------------------ claims
Range(seq) == {seq[i] : i \in 1..Len(seq)}

\* C1: after fetchFields.fulfilled the id list is as long as the payload and
\* no id that only an earlier payload held is left in ids or entities; when
\* the payload's ids are pairwise distinct every id maps to its own entity,
\* the entity of the payload at that position, and the entities differ.
C1_FulfilledReplaces ==
  lastAction.type = "fetchFields/fulfilled" =>
    LET payload == lastAction.payload
    IN  /\ Len(ids) = Len(payload)
        /\ \A old \in seenIds \ PayloadIds(payload) :
             old \notin Range(ids) /\ old \notin DOMAIN entities
        /\ DistinctIds(payload) =>
             /\ Cardinality(DOMAIN entities) = Len(payload)
             /\ \A i \in 1..Len(ids) :
                  /\ ids[i] \in DOMAIN entities
                  /\ entities[ids[i]].id = ids[i]
                  /\ entities[ids[i]] = payload[i]
             /\ \A i, j \in 1..Len(ids) :
                  i # j => ids[i] # ids[j] /\ entities[ids[i]] # entities[ids[j]]

\* a second fulfilled fetch of two distinct fields that dropped an earlier id
C1_Witness ==
  /\ lastAction.type = "fetchFields/fulfilled"
  /\ DistinctIds(lastAction.payload)
  /\ Len(lastAction.payload) = 2
  /\ Len(ids) = 2
  /\ seenIds \ PayloadIds(lastAction.payload) # {}

\* C2: handling fetchFields.rejected sets fetchStatus to "rejected" and
\* leaves ids, entities and selectedId as they were.
C2_RejectedKeepsData ==
  [][lastAction'.type = "fetchFields/rejected" =>
       /\ fetchStatus' = "rejected"
       /\ ids' = ids
       /\ entities' = entities
       /\ selectedId' = selectedId]_vars

\* a rejection with fields of an earlier fetch in the store and a selection
C2_Witness ==
  /\ lastAction.type = "fetchFields/rejected"
  /\ fetchStatus = "rejected"
  /\ ids # << >>
  /\ selectedId # None
  /\ getFieldById(ids[1]) # None

\* C3 as claimed: fetchStatus moves unstarted -> pending -> fulfilled or
\* rejected only, and a settled status never changes again.
C3_StatusSettlesOnce ==
  [][/\ fetchStatus = Unstarted => fetchStatus' \in {Unstarted, "pending"}
     /\ fetchStatus = "pending" => fetchStatus' \in {"pending", "fulfilled", "rejected"}
     /\ fetchStatus \in {"fulfilled", "rejected"} => fetchStatus' = fetchStatus]_vars

\* C3 as amended: fetchStatus leaves unstarted only by becoming pending and
\* never returns to unstarted; it changes only when a fetchFields action is
\* handled, to the status that action names, and a fulfilled or rejected is
\* handled only while a dispatched fetch is outstanding.
C3_StatusLifecycle ==
  [][/\ fetchStatus = Unstarted => fetchStatus' \in {Unstarted, "pending"}
     /\ fetchStatus # Unstarted => fetchStatus' # Unstarted
     /\ fetchStatus' # fetchStatus =>
          \/ fetchStatus' = "pending" /\ lastAction'.type = "fetchFields/pending"
          \/ /\ fetchStatus' = "fulfilled"
             /\ lastAction'.type = "fetchFields/fulfilled"
             /\ inFlight > 0
          \/ /\ fetchStatus' = "rejected"
             /\ lastAction'.type = "fetchFields/rejected"
             /\ inFlight > 0]_vars

\* the status is pending again after a fetch had been fulfilled
C3_Witness ==
  /\ fetchStatus = "pending"
  /\ lastAction.type = "fetchFields/pending"
  /\ fulfilledPayload # << >>

\* C4: closeFieldInfoWindow leaves selectedId undefined; clickField(id) sets
\* selectedId to id, whether or not id is a key of entities.
C4_SelectionWrites ==
  /\ lastAction.type = "fields/closeFieldInfoWindow" => selectedId = None
  /\ lastAction.type = "fields/clickField" => selectedId = Some(lastAction.id)

\* a click on an id the store, though it holds fields, does not hold
C4_Witness ==
  /\ lastAction.type = "fields/clickField"
  /\ ids # << >>
  /\ lastAction.id \notin DOMAIN entities
  /\ selectedId = Some(lastAction.id)

\* the pairs of a ring whose two components are finite numbers, in order
RECURSIVE FinitePairs(_)
FinitePairs(ring) ==
  IF ring = << >> THEN << >>
  ELSE LET lng == Elem(Head(ring), 1)
           lat == Elem(Head(ring), 2)
       IN  (IF IsFinite(lng) /\ IsFinite(lat)
            THEN <<[lng |-> lng, lat |-> lat]>> ELSE << >>)
           \o FinitePairs(Tail(ring))

\* C5: for every id in the store the outerRing getFieldById returns holds
\* only pairs of two finite numbers: it is the first ring without the pairs
\* that have a non-numeric, NaN or infinite component, in the ring's order.
C5_OuterRingFinite ==
  \A id \in DOMAIN entities :
    LET got == getFieldById(id)
    IN  /\ got # None
        /\ got[1].outerRing # None =>
             /\ \A i \in 1..Len(got[1].outerRing[1]) :
                  /\ IsFinite(got[1].outerRing[1][i].lng)
                  /\ IsFinite(got[1].outerRing[1][i].lat)
             /\ got[1].outerRing[1] = FinitePairs(entities[id].polygon.coordinates[1])

\* C6: for an id that is not a key of entities getFieldById and
\* getFieldCenterById both return undefined.
C6_AbsentIsUndefined ==
  \A id \in 1..MaxId :
    id \notin DOMAIN entities =>
      getFieldById(id) = None /\ getFieldCenterById(id) = None

\* the store holds fields and is asked for an id it does not hold
C6_Witness ==
  /\ ids # << >>
  /\ \E id \in 1..MaxId :
       /\ id \notin DOMAIN entities
       /\ getFieldById(id) = None
       /\ getFieldCenterById(id) = None

\* C7: with selectedId set to an id that is not in entities the selector of
\* SelectedFieldCard throws; with selectedId undefined it returns undefined
\* and does not throw.
C7_DanglingSelectionThrows ==
  /\ (selectedId # None /\ selectedId[1] \notin DOMAIN entities) =>
       SelectedFieldCard.threw
  /\ selectedId = None =>
       ~SelectedFieldCard.threw /\ SelectedFieldCard.value = None

\* a selection left dangling by a fetch that replaced the selected field
C7_Witness ==
  /\ selectedId # None
  /\ selectedId[1] \in seenIds
  /\ selectedId[1] \notin DOMAIN entities
  /\ SelectedFieldCard.threw

\* C8: getAllFields never throws, and returns the fields of the last
\* fulfilled payload in the payload's order (none before a fulfilled fetch)
\* when that payload's ids are pairwise distinct.
C8_AllFieldsIsPayload ==
  /\ ~getAllFields.threw
  /\ DistinctIds(fulfilledPayload) => getAllFields.value = fulfilledPayload

\* two fields fetched in descending id order, read after a later rejection
C8_Witness ==
  /\ Len(fulfilledPayload) = 2
  /\ fulfilledPayload[1].id > fulfilledPayload[2].id
  /\ fetchStatus = "rejected"
  /\ getAllFields = Returned(fulfilledPayload)

\* C9: selectedId, if set, references a field that exists in entities.
C9_SelectionExists ==
  selectedId # None => selectedId[1] \in DOMAIN entities

\* C10: clickField and closeFieldInfoWindow leave ids, entities and
\* fetchStatus as they were.
C10_SelectionFrame ==
  [][lastAction'.type \in {"fields/clickField", "fields/closeFieldInfoWindow"} =>
       /\ ids' = ids
       /\ entities' = entities
       /\ fetchStatus' = fetchStatus]_vars

\* the selection was closed while the store holds fetched fields
C10_Witness ==
  /\ lastAction.type = "fields/closeFieldInfoWindow"
  /\ selectedId = None
  /\ ids # << >>
  /\ fetchStatus = "fulfilled"


Next ==
  \/ \E id \in 1..MaxId : clickField(id)
  \/ closeFieldInfoWindow
  \/ fetchFieldsPending
  \/ \E payload \in Payloads : fetchFieldsFulfilled(payload)
  \/ fetchFieldsRejected

Spec == Init /\ [][Next]_vars

====
